---- MODULE Spec2Model ----
(***************************************************************************)
(* Model of azure_rm_securitygroup_facts.py: one AzureRMSecurityGroupFacts *)
(* instance, the provider (network_client.network_security_groups) it      *)
(* queries, and the invocations of exec_module_impl run against it.        *)
(*                                                                         *)
(* Python values: None is the empty tuple, any other value v is <<v>>.     *)
(***************************************************************************)
EXTENDS Naturals, Sequences, FiniteSets, TLC

VARIABLES
    results,         \* self.results: the envelope
    name,            \* self.name
    resource_group,  \* self.resource_group
    pc,              \* position of the instance's control flow
    item,            \* get_item: local item
    result,          \* get_item: local result / list_items: local results
    response,        \* list_items: local response
    idx,             \* list_items: position of the for loop in response
    store,           \* provider: the security groups that exist, in listing order
    fault,           \* provider: how its calls currently misbehave
    kwargs,          \* arguments of the invocation in progress
    calls,           \* provider calls made by the invocation in progress
    serialized,      \* arguments of serialize_obj calls of the invocation in progress
    getOutcome,      \* what the get call of the invocation in progress did
    failMsg,         \* message handed to self.fail
    ret,             \* value returned by exec_module_impl
    pre,             \* self.results when the invocation in progress began
    remembered,      \* one earlier successful invocation: query, provider, envelope
    invocations      \* number of invocations begun

vars == <<results, name, resource_group, pc, item, result, response, idx,
          store, fault, kwargs, calls, serialized, getOutcome, failMsg, ret,
          pre, remembered, invocations>>

-----------------------------------------------------------------------------
(* Bounds *)
MaxInvocations == 3
MaxStore == 2

-----------------------------------------------------------------------------
(* Python values *)
None == <<>>
Some(v) == <<v>>
Val(o) == o[1]

\* faulty variant: the class label of another resource kind
AZURE_OBJECT_CLASS_Other == "NetworkInterface"

AZURE_OBJECT_CLASS == "NetworkSecurityGroup"

FailPrefix == "Error listing all items - "

-----------------------------------------------------------------------------
(* The provider *)

ResourceGroups == {"Testing", "Other"}
Names == {"", "secgroup001"}

\* RawResource: SDK objects with their internal attribute names
RawPool ==
    { [id |-> <<"Testing", "secgroup001">>, name |-> "secgroup001", etag |-> "W/1",
       provisioning_state |-> "Succeeded",
       security_rules |-> << [name |-> "DenyAll", access |-> "Deny"],
                             [name |-> "AllowSsh", access |-> "Allow"] >>],
      [id |-> <<"Testing", "secgroup002">>, name |-> "secgroup002", etag |-> "W/2",
       provisioning_state |-> "Updating",
       security_rules |-> << >>] }

Faults == {"none", "CloudError", "Exception", "NoItem", "IterError", "SerializeError"}

\* str(exc) of the exception the provider raises under a fault
ErrorText(f) == IF f = "CloudError" THEN "AuthorizationFailed" ELSE "Connection reset"

\* network_security_groups.list(resource_group): the groups of that resource group
ProviderList(s, rg) == SelectSeq(s, LAMBDA r : r.id[1] = rg)

\* network_security_groups.get(resource_group, name): outcome of the call
\*   <<"raise", kind, text>> or <<"return", item>>
ProviderGet(s, f, rg, n) ==
    LET found == SelectSeq(s, LAMBDA r : r.id = <<rg, n>>) IN
    IF f = "Exception" THEN <<"raise", "Exception", ErrorText(f)>>
    ELSE IF f = "CloudError" THEN <<"raise", "CloudError", ErrorText(f)>>
    ELSE IF found = <<>> THEN <<"raise", "CloudError", "ResourceNotFound">>
    ELSE IF f = "NoItem" THEN <<"return", None>>
    ELSE <<"return", Some(found[1])>>

\* serialize_obj(obj, class_name): flatten to the declared external names
serialize_rule(r) == [name |-> r.name, properties |-> [access |-> r.access]]

serialize_obj(obj, class_name) ==
    [class |-> class_name,
     id |-> obj.id, name |-> obj.name, etag |-> obj.etag,
     properties |->
        [provisioningState |-> obj.provisioning_state,
         securityRules |-> [i \in DOMAIN obj.security_rules |->
                               serialize_rule(obj.security_rules[i])]]]

\* serialize_obj raises: the serializer is broken, or obj is None
SerializeRaises(f, it) == f = "SerializeError" \/ it = None

-----------------------------------------------------------------------------
(* The instance *)

Terminal == {"returned", "failed", "raised"}
Reusable == {"idle", "returned", "raised"}

Init ==
    /\ \E cm \in BOOLEAN :
         results = [changed |-> FALSE, check_mode |-> cm, results |-> <<>>]
    /\ name = None
    /\ resource_group = None
    /\ pc = "idle"
    /\ item = None
    /\ result = <<>>
    /\ response = <<>>
    /\ idx = 1
    /\ store = <<>>
    /\ fault = "none"
    /\ kwargs = None
    /\ calls = <<>>
    /\ serialized = <<>>
    /\ getOutcome = None
    /\ failMsg = None
    /\ ret = None
    /\ pre = results
    /\ remembered = None
    /\ invocations = 0

\* faulty variant: "if self.name" (truthiness) instead of "is not None"
SingleLookup_Truthy(n) == n # None /\ n # Some("")

\* line 269: if self.name is not None
SingleLookup(n) == n # None

\* faulty variant: the envelope flags a change when items were found
SetResults_Changed(env, r) ==
    [env EXCEPT !.results = r, !.changed = (r # <<>>)]

\* faulty variant: results.extend(...) on the envelope instead of assignment
SetResults_Extend(env, r) == [env EXCEPT !.results = env.results \o r]

\* lines 270, 272: self.results['results'] = ...
SetResults(env, r) == [env EXCEPT !.results = r]

\* lines 264-269: set the attributes from kwargs and select the lookup mode
exec_module_impl ==
    /\ pc \in Reusable
    /\ invocations < MaxInvocations
    /\ \E n \in {None} \cup {Some(x) : x \in Names}, rg \in ResourceGroups :
         /\ kwargs' = Some([name |-> n, resource_group |-> rg])
         /\ name' = n
         /\ resource_group' = Some(rg)
         /\ pc' = IF SingleLookup(n) THEN "get_item" ELSE "list_items"
    /\ invocations' = invocations + 1
    /\ pre' = results
    /\ item' = None
    /\ result' = <<>>
    /\ response' = <<>>
    /\ idx' = 1
    /\ calls' = <<>>
    /\ serialized' = <<>>
    /\ getOutcome' = None
    /\ failMsg' = None
    /\ ret' = None
    /\ UNCHANGED <<results, store, fault, remembered>>

\* faulty variant: a bare "except:" around the get call
GetCatches_All(kind) == TRUE

\* faulty variant: "except AzureMissingResourceHttpError", which get never raises
GetCatches_Missing(kind) == kind = "AzureMissingResourceHttpError"

\* line 283: except CloudError
GetCatches(kind) == kind = "CloudError"

\* lines 276-284: the get call inside try/except CloudError
get_item ==
    /\ pc = "get_item"
    /\ LET out == ProviderGet(store, fault, Val(resource_group), Val(name)) IN
         /\ calls' = Append(calls, <<"get", Val(resource_group), Val(name)>>)
         /\ IF out[1] = "raise"
              THEN /\ getOutcome' = out
                   /\ item' = None
                   /\ pc' = IF GetCatches(out[2]) THEN "get_item_result" ELSE "raised"
              ELSE /\ getOutcome' = out
                   /\ item' = out[2]
                   /\ pc' = "get_item_result"
    /\ UNCHANGED <<results, name, resource_group, result, response, idx, store,
                   fault, kwargs, serialized, failMsg, ret, pre, remembered,
                   invocations>>

\* faulty variant: the "if item" guard is dropped
Truthy_Always(it) == TRUE

\* line 286: if item
Truthy(it) == it # None

Remember(env) ==
    [query |-> Val(kwargs), store |-> store, fault |-> fault, envelope |-> env,
     at |-> invocations]

\* the observer keeps at most one earlier successful invocation
Remembering(env) ==
    IF remembered = None THEN {None, Some(Remember(env))} ELSE {remembered}

\* lines 286-289, then 270 and 274: serialize, assign, return the envelope
get_item_result ==
    /\ pc = "get_item_result"
    /\ IF Truthy(item)
         THEN /\ serialized' = Append(serialized, <<item, AZURE_OBJECT_CLASS>>)
              /\ IF SerializeRaises(fault, item)
                   THEN /\ pc' = "raised"
                        /\ UNCHANGED <<result, results, ret, remembered>>
                   ELSE /\ result' = <<serialize_obj(Val(item), AZURE_OBJECT_CLASS)>>
                        /\ results' = SetResults(results, result')
                        /\ ret' = Some(results')
                        /\ pc' = "returned"
                        /\ remembered' \in Remembering(results')
         ELSE /\ result' = <<>>
              /\ results' = SetResults(results, result')
              /\ ret' = Some(results')
              /\ pc' = "returned"
              /\ remembered' \in Remembering(results')
              /\ UNCHANGED serialized
    /\ UNCHANGED <<name, resource_group, item, response, idx, store, fault,
                   kwargs, calls, getOutcome, failMsg, pre, invocations>>

\* faulty variant: "except CloudError" around the list call
ListCatches_CloudError(kind) == kind = "CloudError"

\* line 295: except Exception
ListCatches(kind) == kind \in {"CloudError", "Exception"}

\* lines 291-298: the list call; any exception goes to self.fail
list_items ==
    /\ pc = "list_items"
    /\ calls' = Append(calls, <<"list", Val(resource_group)>>)
    /\ IF fault \in {"CloudError", "Exception"}
         THEN IF ListCatches(fault)
                THEN /\ failMsg' = Some(FailPrefix \o ErrorText(fault))
                     /\ pc' = "failed"
                     /\ UNCHANGED <<response, result, idx>>
                ELSE /\ pc' = "raised"
                     /\ UNCHANGED <<failMsg, response, result, idx>>
         ELSE /\ response' = ProviderList(store, Val(resource_group))
              /\ result' = <<>>
              /\ idx' = 1
              /\ pc' = "list_loop"
              /\ UNCHANGED failMsg
    /\ UNCHANGED <<results, name, resource_group, item, store, fault, kwargs,
                   serialized, getOutcome, ret, pre, remembered, invocations>>

\* the iterator of the response raises on the fetch after the first item
IterRaises(f, i, n) == f = "IterError" /\ (i = 2 \/ i > n)

\* faulty variant: results.insert(0, ...)
Accumulate_Front(acc, x) == <<x>> \o acc

\* line 300: results.append(...)
Accumulate(acc, x) == Append(acc, x)

\* faulty variant: the loop appends to self.results['results'] instead of a local list
list_loop_Direct ==
    /\ pc = "list_loop"
    /\ ~IterRaises(fault, idx, Len(response))
    /\ idx <= Len(response)
    /\ serialized' = Append(serialized, <<Some(response[idx]), AZURE_OBJECT_CLASS>>)
    /\ IF SerializeRaises(fault, Some(response[idx]))
         THEN /\ pc' = "raised"
              /\ UNCHANGED <<result, idx, results>>
         ELSE /\ result' = Accumulate(result, serialize_obj(response[idx], AZURE_OBJECT_CLASS))
              /\ results' = SetResults(results, result')
              /\ idx' = idx + 1
              /\ pc' = "list_loop"
    /\ UNCHANGED <<name, resource_group, item, response, store, fault,
                   kwargs, calls, getOutcome, failMsg, ret, pre, remembered,
                   invocations>>

\* lines 299-300: one iteration of the loop over response
list_loop ==
    /\ pc = "list_loop"
    /\ ~IterRaises(fault, idx, Len(response))
    /\ idx <= Len(response)
    /\ serialized' = Append(serialized, <<Some(response[idx]), AZURE_OBJECT_CLASS>>)
    /\ IF SerializeRaises(fault, Some(response[idx]))
         THEN /\ pc' = "raised"
              /\ UNCHANGED <<result, idx>>
         ELSE /\ result' = Accumulate(result, serialize_obj(response[idx], AZURE_OBJECT_CLASS))
              /\ idx' = idx + 1
              /\ pc' = "list_loop"
    /\ UNCHANGED <<results, name, resource_group, item, response, store, fault,
                   kwargs, calls, getOutcome, failMsg, ret, pre, remembered,
                   invocations>>

\* line 299: next(response) raises
list_iter_raise ==
    /\ pc = "list_loop"
    /\ IterRaises(fault, idx, Len(response))
    /\ pc' = "raised"
    /\ UNCHANGED <<results, name, resource_group, item, result, response, idx,
                   store, fault, kwargs, calls, serialized, getOutcome, failMsg,
                   ret, pre, remembered, invocations>>

\* line 301, then 272 and 274: return the list, assign, return the envelope
list_return ==
    /\ pc = "list_loop"
    /\ ~IterRaises(fault, idx, Len(response))
    /\ idx > Len(response)
    /\ results' = SetResults(results, result)
    /\ ret' = Some(results')
    /\ pc' = "returned"
    /\ remembered' \in Remembering(results')
    /\ UNCHANGED <<name, resource_group, item, result, response, idx, store,
                   fault, kwargs, calls, serialized, getOutcome, failMsg, pre,
                   invocations>>

-----------------------------------------------------------------------------
(* The environment: the provider's resources change between invocations *)

\* the caller has control again; the record of the finished invocation is dropped
Forget ==
    /\ pc' = "idle"
    /\ item' = None
    /\ result' = <<>>
    /\ response' = <<>>
    /\ idx' = 1
    /\ kwargs' = None
    /\ calls' = <<>>
    /\ serialized' = <<>>
    /\ getOutcome' = None
    /\ failMsg' = None
    /\ ret' = None
    /\ pre' = results

InStore(r) == \E i \in DOMAIN store : store[i] = r

ProviderCreate ==
    /\ pc \in Reusable
    /\ Len(store) < MaxStore
    /\ \E r \in RawPool : ~InStore(r) /\ store' = Append(store, r)
    /\ Forget
    /\ UNCHANGED <<results, name, resource_group, fault, remembered, invocations>>

ProviderDelete ==
    /\ pc \in Reusable
    /\ \E i \in DOMAIN store :
         store' = SubSeq(store, 1, i - 1) \o SubSeq(store, i + 1, Len(store))
    /\ Forget
    /\ UNCHANGED <<results, name, resource_group, fault, remembered, invocations>>

ProviderFault ==
    /\ pc \in Reusable
    /\ \E f \in Faults : f # fault /\ fault' = f
    /\ Forget
    /\ UNCHANGED <<results, name, resource_group, store, remembered, invocations>>

Next ==
    \/ exec_module_impl
    \/ get_item
    \/ get_item_result
    \/ list_items
    \/ list_loop
    \/ list_iter_raise
    \/ list_return
    \/ ProviderCreate
    \/ ProviderDelete
    \/ ProviderFault

Spec == Init /\ [][Next]_vars

TypeOK ==
    /\ pc \in {"idle", "get_item", "get_item_result", "list_items", "list_loop"} \cup Terminal
    /\ results.changed \in BOOLEAN
    /\ invocations \in 0..MaxInvocations

-----------------------------------------------------------------------------
(* Properties *)

InProgress == kwargs # None
OnSinglePath == InProgress /\ Val(kwargs).name # None
OnListPath == InProgress /\ Val(kwargs).name = None
GetRaised == getOutcome # None /\ getOutcome[1] = "raise"
GetReturned == getOutcome # None /\ getOutcome[1] = "return"
NotFound == <<"raise", "CloudError", "ResourceNotFound">>
EmptyEnvelopeReturned ==
    /\ pc = "returned"
    /\ failMsg = None
    /\ ret = Some(SetResults(pre, <<>>))
    /\ Val(ret).results = <<>>

\* C1 as stated: whatever get raises on the single-item path, the invocation
\* does not abort and the envelope comes back with results = [].
C1_EveryGetErrorSuppressed ==
    (OnSinglePath /\ GetRaised /\ pc \in Terminal) => EmptyEnvelopeReturned

\* C1 amended: a CloudError raised by get, whatever its cause, is suppressed
\* and the envelope comes back with results = []; any other exception raised
\* by get propagates: no envelope is returned and self.results is unchanged.
C1_CloudErrorSuppressed ==
    (OnSinglePath /\ GetRaised) =>
        /\ failMsg = None
        /\ getOutcome[2] = "CloudError" =>
              /\ pc \in {"get_item_result", "returned"}
              /\ pc = "returned" => EmptyEnvelopeReturned
        /\ getOutcome[2] # "CloudError" =>
              /\ pc = "raised"
              /\ ret = None
              /\ results = pre

C1_Witness ==
    /\ pc = "returned"
    /\ getOutcome = <<"raise", "CloudError", "AuthorizationFailed">>
    /\ \E i \in DOMAIN store : store[i].id = <<Val(resource_group), Val(name)>>
    /\ Val(ret).results = <<>>

\* C2: the lookup mode depends only on name being None: a non-None name (the
\* empty string included) makes exactly one get(resource_group, name) and no
\* list; a None name makes exactly one list(resource_group) and no get.
C2_OneCallByMode ==
    /\ Len(calls) <= 1
    /\ pc \in {"idle", "get_item", "list_items"} => calls = <<>>
    /\ (InProgress /\ pc \notin {"get_item", "list_items"}) =>
          calls = IF Val(kwargs).name # None
                    THEN << <<"get", Val(kwargs).resource_group, Val(Val(kwargs).name)>> >>
                    ELSE << <<"list", Val(kwargs).resource_group>> >>

C2_Witness ==
    /\ pc = "returned"
    /\ Val(kwargs).name = Some("")
    /\ calls = << <<"get", "Testing", "">> >>

\* C3: when get reports not-found, the invocation completes without failure
\* and returns an envelope with results = [] and changed = false.
C3_NotFoundIsEmpty ==
    (OnSinglePath /\ getOutcome = NotFound) =>
        /\ pc \in {"get_item_result", "returned"}
        /\ failMsg = None
        /\ pc = "returned" =>
              /\ Val(ret).results = <<>>
              /\ Val(ret).changed = FALSE

C3_Witness ==
    /\ pc = "returned"
    /\ getOutcome = NotFound
    /\ Val(kwargs).name = Some("secgroup001")
    /\ store # <<>>
    /\ Val(ret).results = <<>>

\* C4: when list raises any exception, the invocation ends in self.fail with
\* "Error listing all items - " followed by the error text; no envelope is
\* returned, nothing is serialized and the loop is not entered.
C4_ListFailureIsFatal ==
    (OnListPath /\ calls # <<>> /\ fault \in {"CloudError", "Exception"}) =>
        /\ pc = "failed"
        /\ failMsg = Some("Error listing all items - " \o ErrorText(fault))
        /\ failMsg \in {Some("Error listing all items - AuthorizationFailed"),
                        Some("Error listing all items - Connection reset")}
        /\ ret = None
        /\ serialized = <<>>
        /\ result = <<>>
        /\ results = pre

C4_Witness ==
    /\ pc = "failed"
    /\ fault = "Exception"
    /\ store # <<>>
    /\ failMsg = Some("Error listing all items - Connection reset")

\* C5: when list succeeds with n resources, the returned results has length n
\* and its i-th entry is the serialization of the provider's i-th resource
\* with the class label NetworkSecurityGroup, and no failure occurs.
C5_ListingComplete ==
    OnListPath =>
        /\ pc = "returned" =>
              LET rs == ProviderList(store, Val(kwargs).resource_group) IN
              /\ Len(Val(ret).results) = Len(rs)
              /\ \A i \in 1..Len(rs) :
                    Val(ret).results[i] = serialize_obj(rs[i], "NetworkSecurityGroup")
              /\ failMsg = None
        /\ (pc \in Terminal /\ fault \in {"none", "NoItem"}) => pc = "returned"

C5_Witness ==
    /\ OnListPath
    /\ pc = "returned"
    /\ Len(Val(ret).results) = 2
    /\ Val(ret).results[1].name = "secgroup002"

C5_WitnessEmpty ==
    /\ OnListPath
    /\ pc = "returned"
    /\ Val(ret).results = <<>>

\* C6: on the single-item path the returned results has length 0 or 1; when
\* get returns an existing resource it is exactly that resource serialized
\* with the class label NetworkSecurityGroup.
C6_SingleItem ==
    OnSinglePath =>
        /\ pc = "returned" => Len(Val(ret).results) <= 1
        /\ (GetReturned /\ getOutcome[2] # None /\ pc \in Terminal
                /\ fault # "SerializeError") =>
              /\ pc = "returned"
              /\ Val(ret).results =
                    << serialize_obj(Val(getOutcome[2]), "NetworkSecurityGroup") >>
              /\ Val(ret).results[1].class = "NetworkSecurityGroup"
              /\ Val(ret).results[1].name = Val(Val(kwargs).name)

C6_Witness ==
    /\ OnSinglePath
    /\ pc = "returned"
    /\ Len(store) = 2
    /\ Len(Val(ret).results) = 1
    /\ Val(ret).results[1].name = "secgroup001"

\* C7: changed is false in every state and in every envelope returned.
C7_NeverChanged ==
    /\ results.changed = FALSE
    /\ ret # None => Val(ret).changed = FALSE

C7_Witness ==
    /\ pc = "returned"
    /\ Val(ret).results # <<>>
    /\ Val(ret).changed = FALSE
    /\ invocations = 2

\* C8: a successful invocation returns the same envelope as an earlier
\* successful invocation on the same instance with the same query against
\* the same provider state, whatever was invoked in between.
C8_Idempotent ==
    (/\ pc = "returned"
     /\ remembered # None
     /\ Val(remembered).at < invocations
     /\ Val(remembered).query = Val(kwargs)
     /\ Val(remembered).store = store
     /\ Val(remembered).fault = fault)
    => Val(ret) = Val(remembered).envelope

C8_Witness ==
    /\ pc = "returned"
    /\ remembered # None
    /\ Val(remembered).at = 1
    /\ invocations = 3
    /\ Val(remembered).query = Val(kwargs)
    /\ Val(remembered).store = store
    /\ Val(remembered).fault = fault
    /\ Val(ret).results # <<>>
    /\ pre # Val(ret)

\* C9: self.results is assigned only at the return of a complete get_item or
\* list_items; while an invocation runs, and when it ends abnormally, the
\* envelope is as it was before the invocation, and a completed invocation
\* has changed nothing but results.
C9_NoPartialListing ==
    /\ pc \in {"get_item", "get_item_result", "list_items", "list_loop",
               "failed", "raised"} => results = pre
    /\ (pc \in {"failed", "raised"} /\ invocations = 1) => results.results = <<>>
    /\ pc = "returned" =>
          /\ results = Val(ret)
          /\ results.changed = pre.changed
          /\ results.check_mode = pre.check_mode
    /\ ret # None => pc = "returned"

C9_Witness ==
    /\ pc = "raised"
    /\ OnListPath
    /\ Len(response) = 2
    /\ Len(result) = 1
    /\ results = pre
    /\ results.check_mode = TRUE

\* C10: on the single-item path serialize_obj is called only with the
\* non-None item a get returned without error; when get returns None the
\* invocation succeeds with results = [], as for not-found.
C10_SerializeOnlyItem ==
    OnSinglePath =>
        /\ serialized # <<>> =>
              /\ GetReturned
              /\ getOutcome[2] # None
              /\ serialized = << <<getOutcome[2], "NetworkSecurityGroup">> >>
        /\ getOutcome = <<"return", None>> =>
              /\ pc \in {"get_item_result", "returned"}
              /\ serialized = <<>>
              /\ pc = "returned" => EmptyEnvelopeReturned

C10_Witness ==
    /\ pc = "returned"
    /\ getOutcome = <<"return", None>>
    /\ serialized = <<>>
    /\ Val(ret).results = <<>>
====
